---------------------------- MODULE Spec2Model ----------------------------
(***************************************************************************)
(* A model of the interactive Mandelbrot/Julia explorer                    *)
(* (src/unnamed/part_000, the TypeScript program that starts at line 26). *)
(*                                                                         *)
(* Numbers.  The program computes with IEEE doubles.  The model computes   *)
(* with fixed-point numbers: an integer n stands for n / Scale, and every  *)
(* product and quotient is rounded to the nearest representable value, as  *)
(* a floating-point unit rounds.  Literals of the source are written       *)
(* Lit(num, den), e.g. 0.05 is Lit(5, 100).                                *)
(***************************************************************************)
EXTENDS Integers, Sequences, FiniteSets, TLC

VARIABLES
    pc,                 \* "running" | "exited": the process
    centerX, centerY,   \* view state (part_000:75-76)
    zoom,               \* part_000:77
    maxIter,            \* part_000:78
    animating,          \* part_000:79
    animationInterval,  \* part_000:80: Null or <<timer id>>
    timers,             \* the event loop's active interval timers
    juliaMode,          \* part_000:83
    colorSchemeIndex,   \* part_000:89
    bookmarks,          \* part_000:97: slot -> Null or <<bookmark>>
    showCrosshair,      \* part_000:100
    showHelp,           \* part_000:103
    lastRenderedOutput, \* part_000:106
    speedIndex,         \* part_000:122
    targetPoint,        \* part_000:131
    columns, rows,      \* process.stdout.columns / rows (0: unavailable)
    terminal,           \* raw mode, cursor and mouse reporting of the tty
    screen,             \* what the last write to the terminal shows
    lastEvent,          \* the event handled last and the branch it took
    eventsLeft          \* number of events the run still handles

vars == <<pc, centerX, centerY, zoom, maxIter, animating, animationInterval,
          timers, juliaMode, colorSchemeIndex, bookmarks, showCrosshair,
          showHelp, lastRenderedOutput, speedIndex, targetPoint, columns,
          rows, terminal, screen, lastEvent, eventsLeft>>

-----------------------------------------------------------------------------
(* Bounds of the model. *)

\* events (keys, mouse reports, ticks, signals) handled in one run
MaxEvents == 3
\* events handled in one run of the animation controls alone
MaxAnimEvents == 8
\* bookmark slots the enumerated keys use: "1" .. Digits[MaxSlot]
MaxSlot == 1
\* presses of '+', and of '-', in the warm-up key sequences that lead to
\* the initial views
MaxWarmUp == 12
MaxWarmOut == 5

\* presses of the up arrow, and then of '+', in the warm-up key sequence
\* that leads to a view of the boundary of the set
MaxWarmPan == 5
MaxWarmIn == 7
\* events handled in one run of the animation controls on that view
MaxBoundaryEvents == 3
\* events handled in one run of all events on the far view
MaxFarEvents == 2

-----------------------------------------------------------------------------
(* Fixed-point arithmetic. *)

Scale == 10 * 10 * 10

\* a / b rounded to the nearest integer (b > 0)
RDiv(a, b) == (2 * a + b) \div (2 * b)

\* the literal num/den of the source
Lit(num, den) == RDiv(num * Scale, den)

\* a * b and a / b on fixed-point values
Mul(a, b) == RDiv(a * b, Scale)
Quot(a, b) == RDiv(a * Scale, b)

Max(a, b) == IF a >= b THEN a ELSE b
Min(a, b) == IF a <= b THEN a ELSE b

\* Math.floor of a fixed-point value, as an integer
Floor(a) == a \div Scale

Null == << >>


-----------------------------------------------------------------------------
(* Program constants. *)

\* part_000:84: juliaC
juliaC == [real |-> Lit(-7, 10), imag |-> Lit(27015, 100000)]

\* part_000:88
COLOR_SCHEMES == <<"rainbow", "fire", "ice", "grayscale", "green">>

\* part_000:113-121
SPEED_PRESETS ==
    << [name |-> "very slow", delay |-> 400],
       [name |-> "slower",    delay |-> 300],
       [name |-> "slow",      delay |-> 200],
       [name |-> "normal",    delay |-> 150],
       [name |-> "fast",      delay |-> 100],
       [name |-> "faster",    delay |-> 50],
       [name |-> "very fast", delay |-> 25] >>

\* part_000:125-130 (the first point is written to six decimals)
INTERESTING_POINTS ==
    << [x |-> Lit(-743645, 1000000), y |-> Lit(131825, 1000000)],
       [x |-> Lit(-16, 100),          y |-> Lit(10405, 10000)],
       [x |-> Lit(-125066, 100000),   y |-> Lit(2012, 100000)],
       [x |-> Lit(-748, 1000),        y |-> Lit(1, 10)] >>

\* part_000:134-135
DEFAULT_X_RANGE == Lit(35, 10)
DEFAULT_Y_RANGE == Lit(2, 1)

\* part_000:294-295: process.stdout.columns || 80, process.stdout.rows || 24
DefaultColumns == 80
DefaultRows == 24
Width(c) == IF c = 0 THEN DefaultColumns ELSE c
Height(r) == IF r = 0 THEN DefaultRows ELSE r

-----------------------------------------------------------------------------
(* The escape-time kernel (part_000:137-173). *)

\* |z|^2 of the loop condition and of the smoothing
Norm2(zReal, zImag) == Mul(zReal, zReal) + Mul(zImag, zImag)

\* The loop state <<zReal, zImag, iter, live>>; live is the loop condition
\* iter < maxIter && zReal * zReal + zImag * zImag < 4, evaluated once for
\* each state.
LoopState(zReal, zImag, iter, cap) ==
    <<zReal, zImag, iter, iter < cap /\ Norm2(zReal, zImag) < Lit(4, 1)>>

\* One pass through the loop body (nothing once the loop has stopped).
LoopBody(z, cReal, cImag, cap) ==
    IF z[4]
    THEN LoopState(Mul(z[1], z[1]) - Mul(z[2], z[2]) + cReal,
                   2 * Mul(z[1], z[2]) + cImag,
                   z[3] + 1, cap)
    ELSE z

\* n >= 1 passes through the loop body, evaluated by halving n so that the
\* evaluation nests only log2(n) deep.
RECURSIVE Passes(_, _, _, _, _)
Passes(z, cReal, cImag, cap, n) ==
    IF ~z[4] THEN z
    ELSE IF n = 1 THEN LoopBody(z, cReal, cImag, cap)
    ELSE LET half == Passes(z, cReal, cImag, cap, n \div 2)
         IN  Passes(half, cReal, cImag, cap, n - n \div 2)

\* The while loop: the state in which it stops.  It runs at most cap passes.
EscapeLoop(zReal, zImag, cReal, cImag, cap) ==
    Passes(LoopState(zReal, zImag, 0, cap), cReal, cImag, cap, Max(cap, 1))

\* nu = log2(log(|z|^2) / 2 / log 2) = log2(log2 |z|), in tenths: nu >= t/10
\* exactly when |z|^2 >= 4^(2^(t/10)).  NuSteps[t] is that threshold for
\* t = 1, 2, ...; beyond the table nu is taken as its last step.
NuSteps ==
    << Lit(4419, 1000),  Lit(4916, 1000),  Lit(5510, 1000),  Lit(6229, 1000),
       Lit(7103, 1000),  Lit(8176, 1000),  Lit(9507, 1000),  Lit(11175, 1000),
       Lit(13289, 1000), Lit(16, 1),       Lit(19520, 1000), Lit(24160, 1000),
       Lit(30370, 1000), Lit(38800, 1000), Lit(50440, 1000), Lit(66840, 1000),
       Lit(90390, 1000), Lit(125000, 1000), Lit(177200, 1000), Lit(257700, 1000),
       Lit(386000, 1000) >>

Nu(m) ==
    LET reached == {t \in 1..Len(NuSteps) : m >= NuSteps[t]}
    IN  Lit(Cardinality(reached), 10)

\* the value returned once the loop has stopped in <<zReal, zImag, iter>>
Smooth(end, cap) ==
    IF end[3] = cap
    THEN end[3] * Scale
    ELSE end[3] * Scale + Scale - Nu(Norm2(end[1], end[2]))

mandelbrot(cReal, cImag, cap) ==
    Smooth(EscapeLoop(0, 0, cReal, cImag, cap), cap)

julia(zReal, zImag, cReal, cImag, cap) ==
    Smooth(EscapeLoop(zReal, zImag, cReal, cImag, cap), cap)

-----------------------------------------------------------------------------
(* The boundary-seeking heuristic (part_000:406-436). *)

\* part_000:408
samples == 20
\* part_000:421: the iteration cap of the sampling
SampleCap == 200
\* part_000:424: the lower limit of an interesting escape value
SampleFloor == 50
\* part_000:425: Math.random() * 10 lies in [0, JitterRange)
JitterRange == 10

\* The samples findBoundaryPoint scores, each with its escape value.
BoundarySamples(cx, cy, z) ==
    LET xRange == Quot(DEFAULT_X_RANGE, z)
        yRange == Quot(DEFAULT_Y_RANGE, z)
        xMin == cx - RDiv(xRange, 2)
        yMin == cy - RDiv(yRange, 2)
    IN  { [x |-> xMin + RDiv(i * xRange, samples),
           y |-> yMin + RDiv(j * yRange, samples),
           iter |-> mandelbrot(xMin + RDiv(i * xRange, samples),
                               yMin + RDiv(j * yRange, samples), SampleCap)]
          : i \in 0..(samples - 1), j \in 0..(samples - 1) }

\* findBoundaryPoint with iter <= 200 for the iter < 200 of part_000:424
findBoundaryPointIncludesCap(cx, cy, z) ==
    LET all == BoundarySamples(cx, cy, z)
        scored == {s \in all : s.iter > SampleFloor * Scale
                               /\ s.iter <= SampleCap * Scale}
        winners == {s \in scored :
                      \A o \in scored : s.iter + JitterRange * Scale > o.iter}
    IN  IF scored = {}
        THEN {[x |-> cx, y |-> cy]}
        ELSE {[x |-> s.x, y |-> s.y] : s \in winners}

\* The points findBoundaryPoint can return.  A sample is scored when its
\* value is strictly between the floor and the cap; score = value + jitter
\* with jitter in [0, JitterRange), so a scored sample can end as the best
\* one exactly when no other scored sample leads it by JitterRange or more.
\* With no scored sample the result is the current center.
findBoundaryPoint(cx, cy, z) ==
    LET all == BoundarySamples(cx, cy, z)
        scored == {s \in all : s.iter > SampleFloor * Scale
                               /\ s.iter < SampleCap * Scale}
        winners == {s \in scored :
                      \A o \in scored : s.iter + JitterRange * Scale > o.iter}
    IN  IF scored = {}
        THEN {[x |-> cx, y |-> cy]}
        ELSE {[x |-> s.x, y |-> s.y] : s \in winners}

-----------------------------------------------------------------------------
(* Rendering (part_000:287-353). *)

\* The pixel-to-plane mapping of the render loop (part_000:297-319), for the
\* view (cx, cy, z) on a terminal of width x height cells.
aspectRatio == Lit(2, 1)

PixelReal(col, width, cx, z) ==
    LET xRange == Quot(DEFAULT_X_RANGE, z)
        xMin == cx - RDiv(xRange, 2)
        xMax == cx + RDiv(xRange, 2)
    IN  xMin + RDiv(col * (xMax - xMin), width)

PixelImag(row, height, cy, z) ==
    LET yRange == Quot(DEFAULT_Y_RANGE, z)
        yMin == cy - RDiv(yRange, 2)
        yMax == cy + RDiv(yRange, 2)
    IN  yMax - Mul(RDiv(row * (yMax - yMin), height - 1), aspectRatio)
             + RDiv(Mul(yMax - yMin, aspectRatio - Scale), 2)

\* part_000:315-322: the kernel's loop for the cell (col, row) of the grid
\* g, in the state in which it stops, and the value the render loop gets
PixelLoop(g, col, row) ==
    LET cReal == PixelReal(col, g.width, g.centerX, g.zoom)
        cImag == PixelImag(row, g.height, g.centerY, g.zoom)
    IN  IF g.juliaMode
        THEN EscapeLoop(cReal, cImag, juliaC.real, juliaC.imag, g.maxIter)
        ELSE EscapeLoop(0, 0, cReal, cImag, g.maxIter)

PixelIter(g, col, row) == Smooth(PixelLoop(g, col, row), g.maxIter)

\* Number.prototype.toFixed(digits) of a fixed-point value, as the integer
\* number of 10^-digits units it prints.
ToFixed(v, digits) ==
    IF 10 ^ digits >= Scale
    THEN v * ((10 ^ digits) \div Scale)
    ELSE RDiv(v, Scale \div (10 ^ digits))

\* The grid of colored glyphs is a function of the values the render loop
\* reads; a grid is represented by those values.
Grid(cx, cy, z, mi, jm, cs, xh, c, r) ==
    [centerX |-> cx, centerY |-> cy, zoom |-> z, maxIter |-> mi,
     juliaMode |-> jm, scheme |-> COLOR_SCHEMES[cs + 1], crosshair |-> xh,
     width |-> Width(c), height |-> Height(r)]

\* lastRenderedOutput = '' (part_000:106)
NoGrid == Grid(0, 0, 0, 0, FALSE, 0, FALSE, 0, 0)

\* The keys of the bookmarks Map, in insertion order (part_000:351).
BookmarkKeys(bm) == [i \in 1..Len(bm) |-> bm[i].key]

\* The status line (part_000:347-352).
StatusLine(an, si, jm, cx, cy, z, bm) ==
    [animStatus |-> IF an THEN SPEED_PRESETS[si + 1].name ELSE "a: animate",
     modeStr |-> IF jm THEN "Julia" ELSE "Mandelbrot",
     centerX |-> ToFixed(cx, 4), centerY |-> ToFixed(cy, 4),
     zoom |-> ToFixed(z, 2),
     bookmarkStr |-> BookmarkKeys(bm)]

NoStatus == StatusLine(FALSE, 0, FALSE, 0, 0, 0, << >>)

\* What the terminal shows: the help overlay, or a grid and its status line,
\* and the message the screenshot branch wrote over the status line.
HelpScreen == [kind |-> "help", grid |-> NoGrid, status |-> NoStatus, msg |-> ""]

\* renderMandelbrot(), called as the last step of a handler: it reads the
\* state the handler leaves.
renderMandelbrot ==
    IF showHelp'
    THEN /\ screen' = HelpScreen
         /\ lastRenderedOutput' = lastRenderedOutput
    ELSE LET g == Grid(centerX', centerY', zoom', maxIter', juliaMode',
                       colorSchemeIndex', showCrosshair', columns', rows')
         IN  /\ lastRenderedOutput' = g
             /\ screen' = [kind |-> "fractal", grid |-> g,
                           status |-> StatusLine(animating', speedIndex',
                                                 juliaMode', centerX', centerY',
                                                 zoom', bookmarks'),
                           msg |-> ""]

\* a handler that returns without rendering
noRender == UNCHANGED <<screen, lastRenderedOutput>>

-----------------------------------------------------------------------------
(* The event loop's interval timers. *)

\* setInterval(animationTick, delay): the handle of the new timer
NewTimerId(ts) ==
    CHOOSE i \in 1..(Cardinality(ts) + 1) : \A t \in ts : t.id # i

setInterval(ts, delay) == ts \cup {[id |-> NewTimerId(ts), delay |-> delay]}

\* clearInterval(handle)
clearInterval(ts, handle) == {t \in ts : <<t.id>> # handle}

-----------------------------------------------------------------------------
(* Events. *)

view == <<centerX, centerY, zoom, maxIter>>
anim == <<animating, animationInterval, timers, speedIndex, targetPoint>>
flags == <<juliaMode, colorSchemeIndex, showCrosshair, showHelp>>
host == <<pc, columns, rows, terminal>>

\* the process is running and the run has events left
Ready == pc = "running" /\ eventsLeft > 0

\* the record of the event just handled: the branch taken, the key (where
\* the model tells keys of one branch apart), the coordinates of a click
Handled(kind, key, x, y) ==
    /\ lastEvent' = [kind |-> kind, key |-> key, x |-> x, y |-> y]
    /\ eventsLeft' = eventsLeft - 1

\* Math.random(): values of [0, 1) the model draws
RandomValues == {0, Lit(999, 1000)}

-----------------------------------------------------------------------------
(* Animation (part_000:438-504). *)

\* the next speed preset, wrapping one preset early
NextSpeedIndexWrapsEarly(si) == (si + 1) % (Len(SPEED_PRESETS) - 1)

\* part_000:441: the next speed preset
NextSpeedIndex(si) == (si + 1) % Len(SPEED_PRESETS)

\* a Julia target drawn from twice the range of part_000:456
JuliaTargetWide(r) == r - Lit(5, 10)

\* part_000:456: (Math.random() - 0.5) * 0.5
JuliaTarget(r) == Mul(r - Lit(5, 10), Lit(5, 10))

\* part_000:458: INTERESTING_POINTS[Math.floor(Math.random() * length)]
RandomInterestingPoint(r) ==
    INTERESTING_POINTS[Floor(r * Len(INTERESTING_POINTS)) + 1]

\* part_000:454-462: the targets startAnimation can pick
StartTargets ==
    IF juliaMode
    THEN {[x |-> JuliaTarget(rx), y |-> JuliaTarget(ry)] :
             rx \in RandomValues, ry \in RandomValues}
    ELSE IF zoom < Lit(5, 1)
    THEN {RandomInterestingPoint(r) : r \in RandomValues}
    ELSE findBoundaryPoint(centerX, centerY, zoom)

\* startAnimation() without the clearInterval of part_000:443-445
startAnimationLeaks ==
    IF animating
    THEN /\ speedIndex' = (speedIndex + 1) % Len(SPEED_PRESETS)
         /\ timers' = setInterval(timers,
                          SPEED_PRESETS[((speedIndex + 1) % Len(SPEED_PRESETS)) + 1].delay)
         /\ animationInterval' = <<NewTimerId(timers)>>
         /\ UNCHANGED <<animating, targetPoint>>
    ELSE /\ animating' = TRUE
         /\ \E t \in StartTargets : targetPoint' = t
         /\ timers' = setInterval(timers, SPEED_PRESETS[speedIndex + 1].delay)
         /\ animationInterval' = <<NewTimerId(timers)>>
         /\ UNCHANGED speedIndex

\* startAnimation(), part_000:438-465
startAnimation ==
    IF animating
    THEN /\ speedIndex' = NextSpeedIndex(speedIndex)
         /\ LET cleared == IF animationInterval # Null
                           THEN clearInterval(timers, animationInterval)
                           ELSE timers
                delay == SPEED_PRESETS[NextSpeedIndex(speedIndex) + 1].delay
            IN  /\ timers' = setInterval(cleared, delay)
                /\ animationInterval' = <<NewTimerId(cleared)>>
         /\ UNCHANGED <<animating, targetPoint>>
    ELSE /\ animating' = TRUE
         /\ \E t \in StartTargets : targetPoint' = t
         /\ timers' = setInterval(timers, SPEED_PRESETS[speedIndex + 1].delay)
         /\ animationInterval' = <<NewTimerId(timers)>>
         /\ UNCHANGED speedIndex

\* stopAnimation() without the animating = false of part_000:499
stopAnimationKeepsFlag ==
    IF ~animating
    THEN UNCHANGED <<animating, animationInterval, timers>>
    ELSE /\ UNCHANGED animating
         /\ IF animationInterval # Null
            THEN /\ timers' = clearInterval(timers, animationInterval)
                 /\ animationInterval' = Null
            ELSE UNCHANGED <<animationInterval, timers>>

\* stopAnimation() without the clearInterval of part_000:500-503
stopAnimationKeepsTimer ==
    IF ~animating
    THEN UNCHANGED <<animating, animationInterval, timers>>
    ELSE /\ animating' = FALSE
         /\ UNCHANGED <<animationInterval, timers>>

\* stopAnimation(), part_000:497-504
stopAnimation ==
    IF ~animating
    THEN UNCHANGED <<animating, animationInterval, timers>>
    ELSE /\ animating' = FALSE
         /\ IF animationInterval # Null
            THEN /\ timers' = clearInterval(timers, animationInterval)
                 /\ animationInterval' = Null
            ELSE UNCHANGED <<animationInterval, timers>>

\* part_000:469-470: one easing step of a coordinate toward its target
Ease(c, target) == c + Mul(target - c, Lit(5, 100))

\* part_000:473-476: the zoom step of a tick
maxZoom(jm) == IF jm THEN Lit(50, 1) ELSE Lit(10000, 1)
TickZoom(z, jm) == IF z < maxZoom(jm) THEN RDiv(z * 101, 100) ELSE z

\* a tick without the clamp of part_000:481
ClampXNever(c, jm) == c

\* part_000:479-483: the Julia clamp of a tick
ClampX(c, jm) == IF jm THEN Max(Lit(-2, 1), Min(Lit(2, 1), c)) ELSE c
ClampY(c, jm) == IF jm THEN Max(Lit(-15, 10), Min(Lit(15, 10), c)) ELSE c

\* the depth of a tick without the Math.min of part_000:486
TickMaxIterUncapped(z) == 100 + Floor(z * 10)

\* part_000:486: maxIter = Math.min(1000, 100 + Math.floor(zoom * 10))
TickMaxIter(z) == Min(1000, 100 + Floor(z * 10))

\* the retarget condition without the zoom > 10 of part_000:489
RetargetsAnyZoom(jm, z, r) == ~jm /\ r < Lit(2, 100)

\* part_000:489: Math.random() < 0.02
Retargets(jm, z, r) == ~jm /\ z > Lit(10, 1) /\ r < Lit(2, 100)

\* animationTick(), part_000:467-495: the callback of an active timer
animationTick ==
    /\ centerX' = ClampX(Ease(centerX, targetPoint.x), juliaMode)
    /\ centerY' = ClampY(Ease(centerY, targetPoint.y), juliaMode)
    /\ zoom' = TickZoom(zoom, juliaMode)
    /\ maxIter' = TickMaxIter(zoom')
    /\ \E r \in RandomValues :
          IF Retargets(juliaMode, zoom', r)
          THEN \E b \in findBoundaryPoint(centerX', centerY', zoom') :
                  targetPoint' = b
          ELSE targetPoint' = targetPoint
    /\ UNCHANGED <<animating, animationInterval, timers, speedIndex>>
    /\ UNCHANGED <<flags, bookmarks, host>>

Tick ==
    /\ Ready
    /\ timers # {}
    /\ animationTick
    /\ Handled("tick", "", 0, 0)
    /\ renderMandelbrot

-----------------------------------------------------------------------------
(* handleKeypress (part_000:506-620), one action for each branch.  Every    *)
(* chunk of input, key or mouse report, goes through the help check first.  *)

\* a pan step that does not depend on the zoom
panAmountFixed(z) == Lit(1, 10)

\* part_000:508
panAmount(z) == Quot(Lit(1, 10), z)

\* part_000:554
ZoomIn(z) == RDiv(z * 3, 2)

\* zoom / 1.5 without the Math.max of part_000:557
ZoomOutNoFloor(z) == RDiv(z * 2, 3)

\* part_000:557
ZoomOut(z) == Max(Lit(1, 10), RDiv(z * 2, 3))

\* maxIter - 50 without the Math.max of part_000:576
DepthDownNoClamp(mi) == mi - 50

\* part_000:576 and 579
DepthDown(mi) == Max(50, mi - 50)
DepthUp(mi) == Min(1000, mi + 50)

\* part_000:573
NextColorScheme(cs) == (cs + 1) % Len(COLOR_SCHEMES)

\* part_000:562-569 and 582-583: the center a family starts from
FamilyCenterX(jm) == IF jm THEN 0 ELSE Lit(-75, 100)
FamilyCenterY(jm) == 0

\* part_000:528-534: the center a left click at the reported cell sets
ClickReal(mouseX, width, cx, z) ==
    LET xRange == Quot(DEFAULT_X_RANGE, z)
        xMin == cx - RDiv(xRange, 2)
    IN  xMin + RDiv(mouseX * xRange, width)

ClickImag(mouseY, height, cy, z) ==
    LET yRange == Quot(DEFAULT_Y_RANGE, z)
        yMax == cy + RDiv(yRange, 2)
    IN  yMax - RDiv(mouseY * yRange, height - 1)

\* part_000:597 and 605-609: the bookmark keys and numMap
Digits == <<"1", "2", "3", "4", "5", "6", "7", "8", "9">>
ShiftDigits == <<"!", "@", "#", "$", "%", "^", "&", "*", "(">>
numMap(key) == Digits[CHOOSE i \in 1..Len(ShiftDigits) : ShiftDigits[i] = key]

\* bookmarks.get(slot): Null when the Map has no such key
BookmarkGet(bm, slot) ==
    IF \E i \in 1..Len(bm) : bm[i].key = slot
    THEN <<bm[CHOOSE i \in 1..Len(bm) : bm[i].key = slot]>>
    ELSE Null

\* a bookmarks.set that keeps the bookmark a slot already holds
BookmarkSetKeepsFirst(bm, slot, x, y, z) ==
    IF \E i \in 1..Len(bm) : bm[i].key = slot
    THEN bm
    ELSE Append(bm, [key |-> slot, x |-> x, y |-> y, zoom |-> z])

\* bookmarks.set(slot, {x, y, zoom}): a Map keeps the position of a key it has
BookmarkSet(bm, slot, x, y, z) ==
    LET b == [key |-> slot, x |-> x, y |-> y, zoom |-> z]
    IN  IF \E i \in 1..Len(bm) : bm[i].key = slot
        THEN [i \in 1..Len(bm) |-> IF bm[i].key = slot THEN b ELSE bm[i]]
        ELSE Append(bm, b)

\* the help check without the renderMandelbrot() of part_000:513
DismissHelpNoRender(key) ==
    /\ Ready /\ showHelp
    /\ showHelp' = FALSE
    /\ UNCHANGED <<view, anim, bookmarks, host>>
    /\ UNCHANGED <<juliaMode, colorSchemeIndex, showCrosshair>>
    /\ Handled("dismissHelp", key, 0, 0)
    /\ noRender

\* the help check without the return of part_000:514: Enter goes on to
\* its own branch (part_000:612-614)
DismissHelpFallsThrough(key) ==
    /\ Ready /\ showHelp
    /\ showHelp' = FALSE
    /\ IF key = "\r"
       THEN stopAnimation
       ELSE UNCHANGED <<animating, animationInterval, timers>>
    /\ UNCHANGED <<view, speedIndex, targetPoint, bookmarks, host>>
    /\ UNCHANGED <<juliaMode, colorSchemeIndex, showCrosshair>>
    /\ Handled("dismissHelp", key, 0, 0)
    /\ renderMandelbrot

\* part_000:511-515: any input while the help overlay is shown
DismissHelp(key) ==
    /\ Ready /\ showHelp
    /\ showHelp' = FALSE
    /\ UNCHANGED <<view, anim, bookmarks, host>>
    /\ UNCHANGED <<juliaMode, colorSchemeIndex, showCrosshair>>
    /\ Handled("dismissHelp", key, 0, 0)
    /\ renderMandelbrot

\* part_000:518-538: a left-button press reported at (mouseX, mouseY)
MouseClick(mouseX, mouseY) ==
    /\ Ready /\ ~showHelp
    /\ centerX' = ClickReal(mouseX, Width(columns), centerX, zoom)
    /\ centerY' = ClickImag(mouseY, Height(rows), centerY, zoom)
    /\ UNCHANGED <<zoom, maxIter, anim, flags, bookmarks, host>>
    /\ Handled("click", "", mouseX, mouseY)
    /\ renderMandelbrot

\* part_000:525 and 537: another button, or a release
MouseOther ==
    /\ Ready /\ ~showHelp
    /\ UNCHANGED <<view, anim, flags, bookmarks, host>>
    /\ Handled("mouseOther", "", 0, 0)
    /\ noRender

\* part_000:541-552: the arrow keys
Pan(dir) ==
    /\ Ready /\ ~showHelp
    /\ centerY' = CASE dir = "up" -> centerY + panAmount(zoom)
                    [] dir = "down" -> centerY - panAmount(zoom)
                    [] OTHER -> centerY
    /\ centerX' = CASE dir = "right" -> centerX + panAmount(zoom)
                    [] dir = "left" -> centerX - panAmount(zoom)
                    [] OTHER -> centerX
    /\ UNCHANGED <<zoom, maxIter, anim, flags, bookmarks, host>>
    /\ Handled(dir, "", 0, 0)
    /\ renderMandelbrot

\* the zoom-in key with the stopAnimation() of the Enter key before it
KeyZoomInStops ==
    /\ Ready /\ ~showHelp
    /\ zoom' = ZoomIn(zoom)
    /\ stopAnimation
    /\ UNCHANGED <<centerX, centerY, maxIter, speedIndex, targetPoint>>
    /\ UNCHANGED <<flags, bookmarks, host>>
    /\ Handled("zoomIn", "", 0, 0)
    /\ renderMandelbrot

\* part_000:553-555: '+' or '='
KeyZoomIn ==
    /\ Ready /\ ~showHelp
    /\ zoom' = ZoomIn(zoom)
    /\ UNCHANGED <<centerX, centerY, maxIter, anim, flags, bookmarks, host>>
    /\ Handled("zoomIn", "", 0, 0)
    /\ renderMandelbrot

\* part_000:556-558: '-' or '_'
KeyZoomOut ==
    /\ Ready /\ ~showHelp
    /\ zoom' = ZoomOut(zoom)
    /\ UNCHANGED <<centerX, centerY, maxIter, anim, flags, bookmarks, host>>
    /\ Handled("zoomOut", "", 0, 0)
    /\ renderMandelbrot

\* part_000:559-560: 'a'
KeyAnimate ==
    /\ Ready /\ ~showHelp
    /\ startAnimation
    /\ UNCHANGED <<view, flags, bookmarks, host>>
    /\ Handled(IF animating THEN "cycleSpeed" ELSE "startAnimation", "", 0, 0)
    /\ IF animating THEN renderMandelbrot ELSE noRender

\* the family toggle without the zoom = 1.0 of part_000:570
KeyToggleFamilyKeepsZoom ==
    /\ Ready /\ ~showHelp
    /\ juliaMode' = ~juliaMode
    /\ centerX' = FamilyCenterX(juliaMode')
    /\ centerY' = FamilyCenterY(juliaMode')
    /\ UNCHANGED <<zoom, maxIter, anim, bookmarks, host>>
    /\ UNCHANGED <<colorSchemeIndex, showCrosshair, showHelp>>
    /\ Handled("toggleFamily", "", 0, 0)
    /\ renderMandelbrot

\* part_000:561-571: 'j'
KeyToggleFamily ==
    /\ Ready /\ ~showHelp
    /\ juliaMode' = ~juliaMode
    /\ centerX' = FamilyCenterX(juliaMode')
    /\ centerY' = FamilyCenterY(juliaMode')
    /\ zoom' = Lit(1, 1)
    /\ UNCHANGED <<maxIter, anim, bookmarks, host>>
    /\ UNCHANGED <<colorSchemeIndex, showCrosshair, showHelp>>
    /\ Handled("toggleFamily", "", 0, 0)
    /\ renderMandelbrot

\* part_000:572-574: 'c'
KeyColor ==
    /\ Ready /\ ~showHelp
    /\ colorSchemeIndex' = NextColorScheme(colorSchemeIndex)
    /\ UNCHANGED <<view, anim, bookmarks, host>>
    /\ UNCHANGED <<juliaMode, showCrosshair, showHelp>>
    /\ Handled("color", "", 0, 0)
    /\ renderMandelbrot

\* part_000:575-580: '[' and ']'
KeyDepth(key) ==
    /\ Ready /\ ~showHelp
    /\ maxIter' = IF key = "[" THEN DepthDown(maxIter) ELSE DepthUp(maxIter)
    /\ UNCHANGED <<centerX, centerY, zoom, anim, flags, bookmarks, host>>
    /\ Handled(IF key = "[" THEN "depthDown" ELSE "depthUp", "", 0, 0)
    /\ renderMandelbrot

\* the reset without the maxIter = 100 of part_000:585
KeyResetKeepsDepth ==
    /\ Ready /\ ~showHelp
    /\ centerX' = FamilyCenterX(juliaMode)
    /\ centerY' = 0
    /\ zoom' = Lit(1, 1)
    /\ UNCHANGED <<maxIter, anim, flags, bookmarks, host>>
    /\ Handled("reset", "", 0, 0)
    /\ renderMandelbrot

\* part_000:581-586: 'r'
KeyReset ==
    /\ Ready /\ ~showHelp
    /\ centerX' = FamilyCenterX(juliaMode)
    /\ centerY' = 0
    /\ zoom' = Lit(1, 1)
    /\ maxIter' = 100
    /\ UNCHANGED <<anim, flags, bookmarks, host>>
    /\ Handled("reset", "", 0, 0)
    /\ renderMandelbrot

\* part_000:587-589: 'x'
KeyCrosshair ==
    /\ Ready /\ ~showHelp
    /\ showCrosshair' = ~showCrosshair
    /\ UNCHANGED <<view, anim, bookmarks, host>>
    /\ UNCHANGED <<juliaMode, colorSchemeIndex, showHelp>>
    /\ Handled("crosshair", "", 0, 0)
    /\ renderMandelbrot

\* part_000:590-592: 'h'
KeyHelp ==
    /\ Ready /\ ~showHelp
    /\ showHelp' = TRUE
    /\ UNCHANGED <<view, anim, bookmarks, host>>
    /\ UNCHANGED <<juliaMode, colorSchemeIndex, showCrosshair>>
    /\ Handled("help", "", 0, 0)
    /\ renderMandelbrot

\* a digit key that takes an empty slot for a bookmark of the default view
KeyRecallEmptyResets(slot) ==
    /\ Ready /\ ~showHelp
    /\ LET bookmark == BookmarkGet(bookmarks, slot)
       IN  /\ centerX' = IF bookmark # Null THEN bookmark[1].x
                         ELSE FamilyCenterX(juliaMode)
           /\ centerY' = IF bookmark # Null THEN bookmark[1].y
                         ELSE FamilyCenterY(juliaMode)
           /\ zoom' = IF bookmark # Null THEN bookmark[1].zoom ELSE Lit(1, 1)
           /\ UNCHANGED <<maxIter, anim, flags, bookmarks, host>>
           /\ Handled(IF bookmark # Null THEN "recall" ELSE "recallEmpty",
                      slot, 0, 0)
           /\ renderMandelbrot

\* part_000:597-604: a digit key
KeyRecall(slot) ==
    /\ Ready /\ ~showHelp
    /\ LET bookmark == BookmarkGet(bookmarks, slot)
       IN  IF bookmark # Null
           THEN /\ centerX' = bookmark[1].x
                /\ centerY' = bookmark[1].y
                /\ zoom' = bookmark[1].zoom
                /\ UNCHANGED <<maxIter, anim, flags, bookmarks, host>>
                /\ Handled("recall", slot, 0, 0)
                /\ renderMandelbrot
           ELSE /\ UNCHANGED <<view, anim, flags, bookmarks, host>>
                /\ Handled("recallEmpty", slot, 0, 0)
                /\ noRender

\* part_000:605-611: a shifted digit key
KeySave(key) ==
    /\ Ready /\ ~showHelp
    /\ bookmarks' = BookmarkSet(bookmarks, numMap(key), centerX, centerY, zoom)
    /\ UNCHANGED <<view, anim, flags, host>>
    /\ Handled("save", numMap(key), 0, 0)
    /\ renderMandelbrot

\* part_000:612-614: Enter
KeyStop ==
    /\ Ready /\ ~showHelp
    /\ stopAnimation
    /\ UNCHANGED <<view, speedIndex, targetPoint, flags, bookmarks, host>>
    /\ Handled("stop", "", 0, 0)
    /\ renderMandelbrot

\* part_000:619: a key no branch matches
KeyOther ==
    /\ Ready /\ ~showHelp
    /\ UNCHANGED <<view, anim, flags, bookmarks, host>>
    /\ Handled("ignored", "", 0, 0)
    /\ noRender

-----------------------------------------------------------------------------
(* Screenshots, exit and start (part_000:355-404, 615-656). *)

\* cleanup() without the mouse-reporting escapes of part_000:625
cleanupKeepsMouse(t) ==
    [t EXCEPT !.rawMode = FALSE, !.stdin = "paused", !.cursor = "visible"]

\* cleanup(), part_000:622-626
cleanup(t) ==
    [t EXCEPT !.rawMode = FALSE, !.stdin = "paused",
              !.cursor = "visible", !.mouse = FALSE]

\* the tty as startInteractive sets it up (part_000:631-636)
SetUpTerminal ==
    [rawMode |-> TRUE, stdin |-> "flowing", cursor |-> "hidden", mouse |-> TRUE]

\* process.exit, or the end of the process on an uncaught exception: the
\* 'exit' listener (part_000:647) runs cleanup
ProcessExit(t) ==
    /\ pc' = "exited"
    /\ terminal' = cleanup(t)
    /\ UNCHANGED <<columns, rows>>

\* saveScreenshot() and saveToPath(), part_000:355-404, for a file system
\* fs that says which of its calls succeed: the directory the script is
\* written to, or "throws" when a call outside the try block fails
saveScreenshot(fs) ==
    IF fs.primaryDir
    THEN IF fs.write THEN "screenshots" ELSE "throws"
    ELSE IF fs.homeDir /\ fs.write THEN "choas-screenshots" ELSE "throws"

FileSystems == [primaryDir : BOOLEAN, homeDir : BOOLEAN, write : BOOLEAN]

\* part_000:593-596: 's'
KeyScreenshot(fs) ==
    /\ Ready /\ ~showHelp
    /\ LET savedPath == saveScreenshot(fs)
       IN  IF savedPath = "throws"
           THEN /\ ProcessExit(terminal)
                /\ UNCHANGED screen
                /\ Handled("screenshotThrows", "", 0, 0)
           ELSE /\ screen' = [screen EXCEPT !.msg = savedPath]
                /\ UNCHANGED host
                /\ Handled("screenshot", "", 0, 0)
    /\ UNCHANGED <<view, anim, flags, bookmarks, lastRenderedOutput>>

\* the quit branch without the stopAnimation() of part_000:616
KeyQuitNoStop ==
    /\ Ready /\ ~showHelp
    /\ ProcessExit(cleanup(terminal))
    /\ UNCHANGED <<view, anim, flags, bookmarks>>
    /\ Handled("quit", "q", 0, 0)
    /\ noRender

\* part_000:615-618: 'q' or Ctrl-C
KeyQuit ==
    /\ Ready /\ ~showHelp
    /\ stopAnimation
    /\ ProcessExit(cleanup(terminal))
    /\ UNCHANGED <<view, speedIndex, targetPoint, flags, bookmarks>>
    /\ Handled("quit", "q", 0, 0)
    /\ noRender

\* part_000:648-651: the SIGINT listener
Sigint ==
    /\ Ready
    /\ ProcessExit(cleanup(terminal))
    /\ UNCHANGED <<view, anim, flags, bookmarks>>
    /\ Handled("SIGINT", "", 0, 0)
    /\ noRender

-----------------------------------------------------------------------------
(* The specification. *)

\* k presses of '+', of '-'
RECURSIVE ZoomInTimes(_, _)
ZoomInTimes(z, k) == IF k = 0 THEN z ELSE ZoomInTimes(ZoomIn(z), k - 1)
RECURSIVE ZoomOutTimes(_, _)
ZoomOutTimes(z, k) == IF k = 0 THEN z ELSE ZoomOutTimes(ZoomOut(z), k - 1)

\* The state after startInteractive (part_000:628-651) on a tty of the
\* given size, a warm-up key sequence that leaves the family jm and the
\* zoom z, and with n events to come: the module's initial values
\* (part_000:75-131) but for the family, its center and the zoom. With an,
\* the program was launched with --animation or -a: startAnimation() ran
\* after the initial render (part_000:639-644), from the default view.
StartState(jm, z, size, n, an) ==
    /\ pc = "running"
    /\ juliaMode = jm
    /\ centerX = FamilyCenterX(jm)
    /\ centerY = FamilyCenterY(jm)
    /\ zoom = z
    /\ maxIter = 100
    /\ animating = an
    /\ animationInterval = IF an THEN <<NewTimerId({})>> ELSE Null
    /\ timers = IF an THEN setInterval({}, SPEED_PRESETS[3 + 1].delay) ELSE {}
    /\ colorSchemeIndex = 0
    /\ bookmarks = << >>
    /\ showCrosshair = FALSE
    /\ showHelp = FALSE
    /\ speedIndex = 3
    /\ targetPoint \in IF an THEN {RandomInterestingPoint(r) : r \in RandomValues}
                           ELSE {INTERESTING_POINTS[1]}
    /\ columns = size[1]
    /\ rows = size[2]
    /\ terminal = SetUpTerminal
    /\ lastRenderedOutput =
          Grid(centerX, centerY, zoom, maxIter, juliaMode,
               colorSchemeIndex, showCrosshair, columns, rows)
    /\ screen = [kind |-> "fractal", grid |-> lastRenderedOutput,
                 status |-> StatusLine(FALSE, speedIndex, juliaMode,
                                       centerX, centerY, zoom, bookmarks),
                 msg |-> ""]
    /\ lastEvent = [kind |-> "startInteractive", key |-> "", x |-> 0, y |-> 0]
    /\ eventsLeft = n

\* a terminal whose size is unavailable: the 80 x 24 fallback
NoSize == <<0, 0>>

\* the program as started, with no key pressed yet
Init == \E an \in BOOLEAN : StartState(FALSE, Lit(1, 1), NoSize, MaxEvents, an)

\* after '-' was pressed MaxWarmOut times
InitZoomedOut ==
    StartState(FALSE, ZoomOutTimes(Lit(1, 1), MaxWarmOut), NoSize, MaxEvents, FALSE)

\* after 'j' and then '+', MaxWarmUp times
InitJulia ==
    StartState(TRUE, ZoomInTimes(Lit(1, 1), MaxWarmUp), NoSize, MaxEvents, FALSE)

\* the program as started, for a longer run of the animation controls
InitAnimation ==
    \E an \in BOOLEAN : StartState(FALSE, Lit(1, 1), NoSize, MaxAnimEvents, an)

\* The view after '-' was pressed MaxWarmOut times, the right arrow
\* MaxWarmUp times and '+' MaxWarmUp times: far to the right of the set, at
\* a zoom of 5 or more.
FarCenterX ==
    FamilyCenterX(FALSE)
        + MaxWarmUp * panAmount(ZoomOutTimes(Lit(1, 1), MaxWarmOut))
FarZoom == ZoomInTimes(ZoomOutTimes(Lit(1, 1), MaxWarmOut), MaxWarmUp)

\* after that warm-up, 'a' (part_000:459-462: the target is what
\* findBoundaryPoint returns for the far view) and then 'j' (part_000:
\* 561-571: Julia, its default view, the animation and its target kept)
InitFarTarget ==
    /\ pc = "running"
    /\ juliaMode = TRUE
    /\ centerX = FamilyCenterX(TRUE)
    /\ centerY = FamilyCenterY(TRUE)
    /\ zoom = Lit(1, 1)
    /\ maxIter = 100
    /\ animating = TRUE
    /\ animationInterval = <<NewTimerId({})>>
    /\ timers = setInterval({}, SPEED_PRESETS[3 + 1].delay)
    /\ colorSchemeIndex = 0
    /\ bookmarks = << >>
    /\ showCrosshair = FALSE
    /\ showHelp = FALSE
    /\ speedIndex = 3
    /\ targetPoint \in findBoundaryPoint(FarCenterX, FamilyCenterY(FALSE), FarZoom)
    /\ columns = 0
    /\ rows = 0
    /\ terminal = SetUpTerminal
    /\ lastRenderedOutput =
          Grid(centerX, centerY, zoom, maxIter, juliaMode,
               colorSchemeIndex, showCrosshair, columns, rows)
    /\ screen = [kind |-> "fractal", grid |-> lastRenderedOutput,
                 status |-> StatusLine(animating, speedIndex, juliaMode,
                                       centerX, centerY, zoom, bookmarks),
                 msg |-> ""]
    /\ lastEvent = [kind |-> "startInteractive", key |-> "", x |-> 0, y |-> 0]
    /\ eventsLeft = MaxAnimEvents

\* after the warm-up to the far view and 'a', with n events to come: a
\* Mandelbrot animation of the far view, whose target findBoundaryPoint
\* chose; the start of an animation does not render (part_000:451-465)
FarViewState(n) ==
    /\ pc = "running"
    /\ juliaMode = FALSE
    /\ centerX = FarCenterX
    /\ centerY = FamilyCenterY(FALSE)
    /\ zoom = FarZoom
    /\ maxIter = 100
    /\ animating = TRUE
    /\ animationInterval = <<NewTimerId({})>>
    /\ timers = setInterval({}, SPEED_PRESETS[3 + 1].delay)
    /\ colorSchemeIndex = 0
    /\ bookmarks = << >>
    /\ showCrosshair = FALSE
    /\ showHelp = FALSE
    /\ speedIndex = 3
    /\ targetPoint \in findBoundaryPoint(centerX, centerY, zoom)
    /\ columns = 0
    /\ rows = 0
    /\ terminal = SetUpTerminal
    /\ lastRenderedOutput =
          Grid(centerX, centerY, zoom, maxIter, juliaMode,
               colorSchemeIndex, showCrosshair, columns, rows)
    /\ screen = [kind |-> "fractal", grid |-> lastRenderedOutput,
                 status |-> StatusLine(FALSE, speedIndex, juliaMode,
                                       centerX, centerY, zoom, bookmarks),
                 msg |-> ""]
    /\ lastEvent = [kind |-> "startInteractive", key |-> "", x |-> 0, y |-> 0]
    /\ eventsLeft = n

\* the far view, for a run of all events and for a longer run of the
\* animation controls
InitFarView == FarViewState(MaxFarEvents)
InitFar == InitAnimation \/ InitFarTarget \/ FarViewState(MaxAnimEvents)

\* The view after the up arrow was pressed MaxWarmPan times and '+'
\* MaxWarmIn times: a part of the boundary of the set above the seahorse
\* valley, at a zoom above 10.
BoundaryCenterY == FamilyCenterY(FALSE) + MaxWarmPan * panAmount(Lit(1, 1))
BoundaryZoom == ZoomInTimes(Lit(1, 1), MaxWarmIn)

\* the program idle on that view, for a run of the animation controls
InitBoundary ==
    /\ pc = "running"
    /\ juliaMode = FALSE
    /\ centerX = FamilyCenterX(FALSE)
    /\ centerY = BoundaryCenterY
    /\ zoom = BoundaryZoom
    /\ maxIter = 100
    /\ animating = FALSE
    /\ animationInterval = Null
    /\ timers = {}
    /\ colorSchemeIndex = 0
    /\ bookmarks = << >>
    /\ showCrosshair = FALSE
    /\ showHelp = FALSE
    /\ speedIndex = 3
    /\ targetPoint = INTERESTING_POINTS[1]
    /\ columns = 0
    /\ rows = 0
    /\ terminal = SetUpTerminal
    /\ lastRenderedOutput =
          Grid(centerX, centerY, zoom, maxIter, juliaMode,
               colorSchemeIndex, showCrosshair, columns, rows)
    /\ screen = [kind |-> "fractal", grid |-> lastRenderedOutput,
                 status |-> StatusLine(animating, speedIndex, juliaMode,
                                       centerX, centerY, zoom, bookmarks),
                 msg |-> ""]
    /\ lastEvent = [kind |-> "startInteractive", key |-> "", x |-> 0, y |-> 0]
    /\ eventsLeft = MaxBoundaryEvents

\* the cells whose clicks the model draws: the cell of the crosshair
\* (part_000:312-313) and the bottom right cell of the grid, reported with
\* the terminal's coordinates, which start at 1
ClickCells ==
    LET w == Width(columns)
        h == Height(rows)
    IN  {<<w \div 2, (h - 1) \div 2>>, <<w - 1, h - 2>>}

\* the inputs the model draws while the help overlay is shown
HelpInputs == {"q", "\r", "mouse"}

AnimationNext ==
    \/ KeyAnimate
    \/ KeyStop
    \/ Tick
    \/ KeyHelp
    \/ \E key \in HelpInputs : DismissHelp(key)

\* the animation controls and the screenshot key
ExportNext ==
    \/ AnimationNext
    \/ \E fs \in FileSystems : KeyScreenshot(fs)

Next ==
    \/ AnimationNext
    \/ \E c \in ClickCells : MouseClick(c[1] + 1, c[2] + 1)
    \/ MouseOther
    \/ \E dir \in {"up", "down", "left", "right"} : Pan(dir)
    \/ KeyZoomIn
    \/ KeyZoomOut
    \/ KeyToggleFamily
    \/ KeyColor
    \/ \E key \in {"[", "]"} : KeyDepth(key)
    \/ KeyReset
    \/ KeyCrosshair
    \/ \E fs \in FileSystems : KeyScreenshot(fs)
    \/ \E i \in 1..MaxSlot : KeyRecall(Digits[i])
    \/ \E i \in 1..MaxSlot : KeySave(ShiftDigits[i])
    \/ KeyQuit
    \/ KeyOther
    \/ Sigint

Spec == Init /\ [][Next]_vars
SpecZoomedOut == InitZoomedOut /\ [][Next]_vars
SpecJulia == InitJulia /\ [][Next]_vars
SpecFarTarget == InitFarTarget /\ [][AnimationNext]_vars
SpecFarView == InitFarView /\ [][Next]_vars
SpecFar == InitFar /\ [][AnimationNext]_vars
SpecBoundary == InitBoundary /\ [][AnimationNext]_vars
SpecExport == InitAnimation /\ [][ExportNext]_vars
SpecAnimation == InitAnimation /\ [][AnimationNext]_vars

-----------------------------------------------------------------------------
(* Properties. *)

\* the events that are a key press or a mouse report
InputKinds ==
    {"dismissHelp", "click", "mouseOther", "up", "down", "left", "right",
     "zoomIn", "zoomOut", "startAnimation", "cycleSpeed", "toggleFamily",
     "color", "depthDown", "depthUp", "reset", "crosshair", "help",
     "screenshot", "screenshotThrows", "recall", "recallEmpty", "save",
     "stop", "quit", "ignored"}

\* C1: in every reachable state zoom >= 0.1, however many zoom-out events,
\* bookmark recalls, resets, toggles and ticks led to it.
C1_ZoomFloor == zoom >= Lit(1, 10)

\* C1 witness: a zoom-out that the floor stopped at 0.1.
C1_Witness == lastEvent.kind = "zoomOut" /\ zoom = Lit(1, 10)

\* C2: in every reachable state 50 <= maxIter <= 1000, and a depth-adjust
\* event changes maxIter by 50, down or up, or sets it to the bound that
\* step would pass.
C2_MaxIterRange ==
    /\ [](maxIter >= 50 /\ maxIter <= 1000)
    /\ [][/\ lastEvent'.kind = "depthDown" =>
                maxIter' = (IF maxIter - 50 < 50 THEN 50 ELSE maxIter - 50)
          /\ lastEvent'.kind = "depthUp" =>
                maxIter' = (IF maxIter + 50 > 1000 THEN 1000 ELSE maxIter + 50)
         ]_vars

\* C2 witness: a depth-up event that was clamped to 1000 (maxIter steps up
\* from 100 by 50, so 1000 is here reached from a value a tick had set).
C2_Witness == lastEvent.kind = "depthUp" /\ maxIter = 1000 /\ zoom > Lit(90, 1)

\* the view a slot's bookmark holds, Null for an empty slot
SavedView(bm, slot) ==
    IF BookmarkGet(bm, slot) = Null THEN Null
    ELSE <<BookmarkGet(bm, slot)[1].x, BookmarkGet(bm, slot)[1].y,
           BookmarkGet(bm, slot)[1].zoom>>

\* C3: for every slot 1..9, a save stores exactly the center and zoom of
\* that moment, no event but a save to the same slot changes what the slot
\* holds, and a recall of a slot that holds a bookmark sets center and zoom
\* to exactly what it holds: so a recall restores the view of the last save
\* to its slot, whatever happened in between.
C3_BookmarkRoundTrip ==
    [][\A i \in 1..Len(Digits) :
         LET slot == Digits[i]
             saves == lastEvent'.kind = "save" /\ lastEvent'.key = slot
             digit == lastEvent'.kind \in {"recall", "recallEmpty"}
                      /\ lastEvent'.key = slot
         IN  /\ saves => SavedView(bookmarks', slot) = <<centerX, centerY, zoom>>
             /\ ~saves => SavedView(bookmarks', slot) = SavedView(bookmarks, slot)
             /\ digit /\ SavedView(bookmarks, slot) # Null =>
                   <<centerX', centerY', zoom'>> = SavedView(bookmarks, slot)
      ]_vars

\* C3 witness: a recall as the third event of a run, after a save and
\* another event: the view is the saved one.
C3_Witness ==
    /\ lastEvent.kind = "recall"
    /\ eventsLeft = MaxEvents - 3
    /\ SavedView(bookmarks, lastEvent.key) = <<centerX, centerY, zoom>>

\* C4: a key press or mouse report handled while the help overlay is shown
\* clears showHelp and changes nothing else of the view, the family, the
\* palette, the crosshair, the bookmarks and the animation.
C4_HelpSwallowsInput ==
    [][showHelp /\ lastEvent'.kind \in InputKinds /\ eventsLeft' # eventsLeft =>
          /\ ~showHelp'
          /\ UNCHANGED <<centerX, centerY, zoom, maxIter, juliaMode,
                         colorSchemeIndex, showCrosshair, bookmarks>>
          /\ UNCHANGED <<animating, targetPoint, speedIndex,
                         animationInterval, timers>>
      ]_vars

\* C4 witness: the overlay was dismissed by Enter while an animation runs.
C4_Witness ==
    /\ lastEvent.kind = "dismissHelp" /\ lastEvent.key = "\r"
    /\ ~showHelp /\ animating /\ timers # {}

\* C5: at most one interval timer is active, and it is the one
\* animationInterval holds: no timer is leaked.
C5_OneTimer ==
    /\ Cardinality(timers) <= 1
    /\ \A t \in timers : animationInterval = <<t.id>>

\* C5 witness: a timer was started while one was active (a speed cycle).
C5_Witness == lastEvent.kind = "cycleSpeed" /\ Cardinality(timers) = 1

\* seven speed cycles from the preset si
SevenCycles(si) ==
    NextSpeedIndex(NextSpeedIndex(NextSpeedIndex(NextSpeedIndex(
        NextSpeedIndex(NextSpeedIndex(NextSpeedIndex(si)))))))

\* C6: a start/cycle event handled while animating sets speedIndex to
\* (speedIndex + 1) mod 7, leaves one timer running, at the new preset's
\* delay, and leaves target, center, zoom and maxIter unchanged; seven
\* cycles lead back to the preset they started from.
C6_CycleSpeed ==
    /\ [][animating /\ ~showHelp /\ lastEvent'.kind \in {"startAnimation", "cycleSpeed"} =>
            /\ lastEvent'.kind = "cycleSpeed"
            /\ speedIndex' = (speedIndex + 1) % 7
            /\ animating'
            /\ \E t \in timers' :
                  /\ timers' = {t}
                  /\ animationInterval' = <<t.id>>
                  /\ t.delay = SPEED_PRESETS[speedIndex' + 1].delay
            /\ UNCHANGED <<targetPoint, centerX, centerY, zoom, maxIter>>
        ]_vars
    /\ [](SevenCycles(speedIndex) = speedIndex)

\* C6 witness: the seventh cycle of a run of start and seven cycles is back
\* at the preset the program starts with.
C6_Witness ==
    /\ lastEvent.kind = "cycleSpeed"
    /\ eventsLeft = MaxAnimEvents - 8
    /\ speedIndex = 3
    /\ \E t \in timers : t.delay = 150

\* C7: a stop event handled while animating (the overlay not shown) leaves
\* the program idle with no timer; a tick is handled only while animating,
\* so none follows a stop until animation is started again; a stop event
\* handled while idle changes nothing of the view and the animation.
C7_Stop ==
    [][/\ lastEvent'.kind = "stop" /\ animating =>
             ~animating' /\ timers' = {} /\ animationInterval' = Null
       /\ lastEvent'.kind = "stop" /\ ~animating =>
             UNCHANGED <<view, anim>>
       /\ lastEvent'.kind = "stop" => UNCHANGED <<view, speedIndex, targetPoint>>
       /\ lastEvent'.kind = "tick" /\ eventsLeft' # eventsLeft => animating
      ]_vars

\* C7 witness: start, a speed cycle, then the stop.
C7_Witness ==
    /\ lastEvent.kind = "stop"
    /\ eventsLeft = MaxEvents - 3
    /\ speedIndex = 4
    /\ ~animating /\ timers = {}

\* C8 as claimed: a quit key handled in any state, the overlay shown or
\* not, ends the process with no timer active.
C8_QuitAlways ==
    [][lastEvent'.key = "q" /\ eventsLeft' # eventsLeft =>
          pc' = "exited" /\ timers' = {}]_vars

\* C8 amended: the quit branch ends the process, idle and with no timer
\* active; a quit key handled while the overlay is shown only dismisses the
\* overlay, and the process and its animation run on.
C8_QuitUnlessHelp ==
    [][/\ lastEvent'.kind = "quit" =>
             /\ ~showHelp
             /\ pc' = "exited"
             /\ ~animating' /\ timers' = {} /\ animationInterval' = Null
       /\ showHelp /\ lastEvent'.key = "q" /\ eventsLeft' # eventsLeft =>
             /\ pc' = "running" /\ ~showHelp'
             /\ UNCHANGED <<animating, timers, animationInterval>>
      ]_vars

\* C8 witness: quit handled while an animation runs (start, cycle, quit).
C8_Witness ==
    /\ lastEvent.kind = "quit"
    /\ pc = "exited"
    /\ speedIndex = 4 /\ targetPoint \in {INTERESTING_POINTS[j] : j \in 1..4}
    /\ timers = {}

\* C9 as claimed: a left press reported at the cell (col, row), that is at
\* the terminal's coordinates (col + 1, row + 1), sets the center to the
\* plane point the render loop maps that cell to.
C9_ClickIsRenderInverse ==
    [][lastEvent'.kind = "click" /\ eventsLeft' # eventsLeft =>
          /\ centerX' = PixelReal(lastEvent'.x - 1, Width(columns), centerX, zoom)
          /\ centerY' = PixelImag(lastEvent'.y - 1, Height(rows), centerY, zoom)
      ]_vars

\* C10 as claimed: after an animation tick zoom is at most the cap of the
\* family, 50 for Julia and 10000 for Mandelbrot.
C10_TickZoomCapped ==
    lastEvent.kind = "tick" => zoom <= maxZoom(juliaMode)

\* the square of the Euclidean distance between two points of the plane
Dist2(x1, y1, x2, y2) == (x1 - x2) * (x1 - x2) + (y1 - y2) * (y1 - y2)

\* C11 as claimed: a tick handled while the center is not at the target
\* leaves the center strictly closer to that target than it was, and not
\* at the target.
C11_TickMovesCloser ==
    [][/\ lastEvent'.kind = "tick" /\ eventsLeft' # eventsLeft
       /\ <<centerX, centerY>> # <<targetPoint.x, targetPoint.y>>
       =>
       /\ Dist2(centerX', centerY', targetPoint.x, targetPoint.y)
             < Dist2(centerX, centerY, targetPoint.x, targetPoint.y)
       /\ <<centerX', centerY'>> # <<targetPoint.x, targetPoint.y>>
      ]_vars

\* C12: a family toggle flips the family, sets the center to (0, 0) when
\* the new family is Julia and to (-0.75, 0) when it is Mandelbrot, sets
\* zoom to 1.0 and leaves maxIter as it was; after two toggles from the
\* default state the family, the center and the zoom are the defaults.
C12_FamilyToggle ==
    /\ [][lastEvent'.kind = "toggleFamily" =>
            /\ juliaMode' = ~juliaMode
            /\ centerX' = (IF juliaMode' THEN 0 ELSE Lit(-75, 100))
            /\ centerY' = 0
            /\ zoom' = Lit(1, 1)
            /\ maxIter' = maxIter
        ]_vars
    /\ [](/\ lastEvent.kind = "toggleFamily"
          /\ eventsLeft = MaxEvents - 2
          /\ ~juliaMode
          => <<centerX, centerY, zoom>> = <<Lit(-75, 100), 0, Lit(1, 1)>>)

\* C12 witness: a toggle to Julia after a zoom-in and a depth-up: the view
\* is the Julia default, the depth the one the depth-up left.
C12_Witness ==
    /\ lastEvent.kind = "toggleFamily"
    /\ juliaMode /\ centerX = 0 /\ zoom = Lit(1, 1)
    /\ maxIter = 150

\* C13: a pan event moves the center by 0.1 / zoom along the axis of its
\* arrow, by nothing along the other axis, and changes nothing else of
\* the view, the family, the flags, the bookmarks and the animation; and
\* the pan step at twice the zoom is half the pan step (to one unit of the
\* last place of the model's numbers, in which both steps are rounded).
C13_PanStep ==
    /\ [][lastEvent'.kind \in {"up", "down", "left", "right"} =>
            LET step == RDiv(Lit(1, 10) * Scale, zoom)
            IN  /\ centerX' - centerX =
                      (CASE lastEvent'.kind = "right" -> step
                         [] lastEvent'.kind = "left" -> -step
                         [] OTHER -> 0)
                /\ centerY' - centerY =
                      (CASE lastEvent'.kind = "up" -> step
                         [] lastEvent'.kind = "down" -> -step
                         [] OTHER -> 0)
                /\ UNCHANGED <<zoom, maxIter, juliaMode, colorSchemeIndex,
                               showCrosshair, showHelp, bookmarks>>
                /\ UNCHANGED <<animating, animationInterval, timers,
                               speedIndex, targetPoint>>
        ]_vars
    /\ [](2 * panAmount(2 * zoom) - panAmount(zoom) \in -1 .. 1)

\* C13 witness: a pan to the left at a zoom of 2.25 (two zoom-ins), where
\* the step is 0.044.
C13_Witness ==
    /\ lastEvent.kind = "left"
    /\ zoom = Lit(225, 100)
    /\ centerX = Lit(-75, 100) - Lit(44, 1000)

\* C14: a digit key for a slot that holds no bookmark changes nothing of
\* the view, the family, the palette, the flags, the bookmarks and the
\* animation, and the process runs on.
C14_EmptyRecall ==
    [][/\ lastEvent'.kind \in {"recall", "recallEmpty"}
       /\ SavedView(bookmarks, lastEvent'.key) = Null
       =>
       /\ UNCHANGED <<centerX, centerY, zoom, maxIter, juliaMode,
                      colorSchemeIndex, showCrosshair, showHelp, bookmarks>>
       /\ UNCHANGED <<animating, animationInterval, timers, speedIndex,
                      targetPoint>>
       /\ pc' = "running"
      ]_vars

\* C14 witness: an empty slot recalled while an animation runs on a
\* zoomed-in view.
C14_Witness ==
    /\ lastEvent.kind = "recallEmpty"
    /\ bookmarks = << >>
    /\ animating /\ timers # {}
    /\ zoom > Lit(1, 1)
    /\ pc = "running"

\* C15 as claimed: whatever calls of the file system fail, an export event
\* leaves the process running with the view as it was, and ends with a
\* line on the screen: the path of the script written to the primary or the
\* secondary location, or the report of the failure.
C15_ExportNeverFatal ==
    [][lastEvent'.kind \in {"screenshot", "screenshotThrows"} =>
          /\ pc' = "running"
          /\ screen'.msg # ""
          /\ UNCHANGED <<centerX, centerY, zoom, maxIter>>
      ]_vars

\* C16: once the process has exited, by the quit key, by SIGINT or in any
\* other way, raw mode is off, the cursor is visible and mouse reporting is
\* disabled: what the setup changed is restored.
C16_TerminalRestored ==
    pc = "exited" =>
        /\ ~terminal.rawMode
        /\ terminal.cursor = "visible"
        /\ ~terminal.mouse

\* C16 witness: the process ended on SIGINT while an animation was running.
C16_Witness ==
    /\ pc = "exited"
    /\ lastEvent.kind = "SIGINT"
    /\ animating
    /\ terminal = [rawMode |-> FALSE, stdin |-> "paused",
                   cursor |-> "visible", mouse |-> FALSE]

\* C17 as claimed, for every cell of the frame rendered last: the value of
\* the kernel lies in [0, maxIter], is maxIter when the loop ran to the
\* cap, and for a loop that stopped at count n below the cap lies between
\* n and n + 1.  (The model's nu is rounded down to a tenth, so the value
\* n + 1 stands for the values just below it and is let pass.)
C17_KernelRange ==
    LET g == lastRenderedOutput
    IN  \A col \in 0 .. (g.width - 1), row \in 0 .. (g.height - 2) :
           LET end == PixelLoop(g, col, row)
               value == PixelIter(g, col, row)
               n == end[3]
           IN  /\ value >= 0 /\ value <= g.maxIter * Scale
               /\ n = g.maxIter => value = g.maxIter * Scale
               /\ n < g.maxIter =>
                     value >= n * Scale /\ value <= (n + 1) * Scale

\* C18 as claimed: once the handler of an event or tick has returned (the
\* help overlay not shown), the frame and the status line on the screen
\* are those of the current state: its view, family, palette, crosshair
\* and bookmarks, and its animation indicator.
C18_FrameIsCurrent ==
    pc = "running" /\ ~showHelp /\ lastEvent.kind # "startInteractive" =>
        /\ screen.kind = "fractal"
        /\ screen.grid = Grid(centerX, centerY, zoom, maxIter, juliaMode,
                              colorSchemeIndex, showCrosshair, columns, rows)
        /\ screen.status = StatusLine(animating, speedIndex, juliaMode,
                                      centerX, centerY, zoom, bookmarks)

\* C19: a reset event sets the center to (0, 0) in Julia mode and to
\* (-0.75, 0) in Mandelbrot mode, zoom to 1.0 and maxIter to 100, and
\* leaves the family, the palette, the crosshair, the bookmarks and the
\* animation (flag, timer, target, speed) as they were.
C19_Reset ==
    [][lastEvent'.kind = "reset" =>
          /\ centerX' = (IF juliaMode THEN 0 ELSE Lit(-75, 100))
          /\ centerY' = 0
          /\ zoom' = Lit(1, 1)
          /\ maxIter' = 100
          /\ UNCHANGED <<juliaMode, colorSchemeIndex, showCrosshair, bookmarks>>
          /\ UNCHANGED <<animating, animationInterval, timers, targetPoint,
                         speedIndex>>
      ]_vars

\* C19 witness: a reset of the deep Julia view while an animation runs;
\* the bookmark of the deep view, saved before it, is kept.
C19_Witness ==
    /\ lastEvent.kind = "reset"
    /\ juliaMode /\ animating /\ timers # {}
    /\ <<centerX, centerY, zoom, maxIter>> = <<0, 0, Lit(1, 1), 100>>
    /\ \E i \in 1..Len(bookmarks) : bookmarks[i].zoom > Lit(50, 1)

\* C20: after an animation tick maxIter is min(1000, 100 + floor(zoom * 10))
\* of the zoom the tick left, whatever maxIter was before the tick.
C20_TickMaxIter ==
    lastEvent.kind = "tick" =>
        maxIter = (IF 100 + ((zoom * 10) \div Scale) > 1000
                   THEN 1000
                   ELSE 100 + ((zoom * 10) \div Scale))

\* C20 witness: a tick of a deep view, where the cap of 1000 applies, as
\* the third event of a run (before it a start and one more event).
C20_Witness ==
    /\ lastEvent.kind = "tick"
    /\ eventsLeft = MaxEvents - 3
    /\ zoom > Lit(90, 1)
    /\ maxIter = 1000

\* C21: after a tick handled in Julia mode centerX is in [-2, 2] and
\* centerY in [-1.5, 1.5]; a tick handled in Mandelbrot mode leaves the
\* center where the easing step put it, inside that box or not.
C21_JuliaClamp ==
    /\ [](lastEvent.kind = "tick" /\ juliaMode =>
             /\ centerX >= Lit(-2, 1) /\ centerX <= Lit(2, 1)
             /\ centerY >= Lit(-15, 10) /\ centerY <= Lit(15, 10))
    /\ [][lastEvent'.kind = "tick" /\ ~juliaMode =>
             /\ centerX' = centerX + RDiv((targetPoint.x - centerX) * 5, 100)
             /\ centerY' = centerY + RDiv((targetPoint.y - centerY) * 5, 100)
         ]_vars

\* C21 witness: a Julia tick whose easing step had passed 2.0 (the target
\* lies beyond it) and was clamped to it.
C21_Witness ==
    /\ lastEvent.kind = "tick" /\ juliaMode
    /\ targetPoint.x > Lit(2, 1)
    /\ centerX = Lit(2, 1)

\* C22: the target an animation started from idle gets lies, in Julia
\* mode, within 0.25 of the origin on each axis; is, in Mandelbrot mode at
\* a zoom below 5, one of the four points of interest; and is, in
\* Mandelbrot mode at a zoom of 5 or more, a point the boundary heuristic
\* can return for the current view.
C22_StartTarget ==
    [][lastEvent'.kind = "startAnimation" =>
          IF juliaMode
          THEN /\ targetPoint'.x >= -Lit(25, 100) /\ targetPoint'.x <= Lit(25, 100)
               /\ targetPoint'.y >= -Lit(25, 100) /\ targetPoint'.y <= Lit(25, 100)
          ELSE IF zoom < Lit(5, 1)
          THEN \E j \in 1..4 : targetPoint' = INTERESTING_POINTS[j]
          ELSE targetPoint' \in findBoundaryPoint(centerX, centerY, zoom)
      ]_vars

\* C22 witness: an animation started from idle in Julia mode, its target
\* replacing the far one of the animation stopped before.
C22_Witness ==
    /\ lastEvent.kind = "startAnimation"
    /\ juliaMode /\ animating
    /\ targetPoint.x = -Lit(25, 100)

\* the point t is one the heuristic may return for the view (cx, cy, z):
\* a sample of the 20 x 20 grid whose escape value at cap 200 is strictly
\* between 50 and 200 and whose value plus a jitter below 10 can be the
\* largest of all such samples' (no other one leads it by 10 or more); or,
\* when no sample has such a value, the center of the view
BoundaryResult(t, cx, cy, z) ==
    LET qualify == {s \in BoundarySamples(cx, cy, z) :
                       s.iter > 50 * Scale /\ s.iter < 200 * Scale}
    IN  IF qualify = {}
        THEN t = [x |-> cx, y |-> cy]
        ELSE \E s \in qualify :
                /\ t = [x |-> s.x, y |-> s.y]
                /\ \A o \in qualify : s.iter + 10 * Scale > o.iter

\* C23: the target an animation started at a zoom of 5 or more gets, and
\* the target a tick changes to, is such a result for the view of that
\* moment; the start, which does nothing but call the heuristic and start
\* the timer, leaves the view as it was.
C23_BoundaryPoint ==
    [][/\ lastEvent'.kind = "startAnimation" /\ ~juliaMode /\ zoom >= Lit(5, 1) =>
             /\ BoundaryResult(targetPoint', centerX, centerY, zoom)
             /\ UNCHANGED <<centerX, centerY, zoom, maxIter>>
       /\ lastEvent'.kind = "tick" /\ targetPoint' # targetPoint =>
             BoundaryResult(targetPoint', centerX', centerY', zoom')
      ]_vars

\* C23 witness: an animation started on the boundary view; its target is
\* a sample of the view, not its center and none of the fixed points.
C23_Witness ==
    /\ lastEvent.kind = "startAnimation"
    /\ ~juliaMode /\ zoom = BoundaryZoom
    /\ <<centerX, centerY>> = <<FamilyCenterX(FALSE), BoundaryCenterY>>
    /\ targetPoint # [x |-> centerX, y |-> centerY]
    /\ \A j \in 1..4 : targetPoint # INTERESTING_POINTS[j]

\* C24 as claimed: a tick that fires while the help overlay is shown
\* changes nothing of the center, the zoom, maxIter and the target.
C24_TickSwallowedByHelp ==
    [][showHelp /\ lastEvent'.kind = "tick" =>
          UNCHANGED <<centerX, centerY, zoom, maxIter, targetPoint>>
      ]_vars

\* C25: the target changes only when an animation is started from idle
\* and on a tick handled in Mandelbrot mode that leaves a zoom above 10:
\* a tick in Julia mode, a tick that leaves a zoom of 10 or less, a speed
\* cycle and every other key or mouse event leave the target as it was.
C25_Retarget ==
    [][/\ targetPoint' # targetPoint =>
             \/ lastEvent'.kind = "startAnimation"
             \/ lastEvent'.kind = "tick" /\ ~juliaMode /\ zoom' > Lit(10, 1)
       /\ lastEvent'.kind = "tick" /\ (juliaMode \/ zoom' <= Lit(10, 1)) =>
             targetPoint' = targetPoint
       /\ lastEvent'.kind \in InputKinds \ {"startAnimation"} =>
             targetPoint' = targetPoint
      ]_vars

\* C25 witness: a tick of the Mandelbrot animation at a zoom above 10 that
\* changed the target, as the second event of a run (no animation was
\* started in it).
C25_Witness ==
    /\ lastEvent.kind = "tick"
    /\ eventsLeft = MaxFarEvents - 2
    /\ ~juliaMode /\ zoom > Lit(10, 1)
    /\ targetPoint # [x |-> FarCenterX, y |-> FamilyCenterY(FALSE)]

\* C26: animating is true exactly when animationInterval holds a handle;
\* while idle no timer is active, and while animating exactly one is.
C26_FlagIffTimer ==
    /\ animating <=> animationInterval # Null
    /\ ~animating => timers = {}
    /\ animating => Cardinality(timers) = 1

\* C26 witness: an animation started again after a stop: the program was
\* launched animating, and a tick, a stop and a start followed.
C26_Witness ==
    /\ lastEvent.kind = "startAnimation"
    /\ eventsLeft = MaxEvents - 3
    /\ zoom = RDiv(Lit(1, 1) * 101, 100)
    /\ animating /\ animationInterval # Null /\ Cardinality(timers) = 1

\* C27: when a screenshot event is handled, the stored frame it writes
\* out is the frame of the current center, zoom, maxIter, family, palette
\* and crosshair flag, whatever events and ticks came before it, ticks
\* under the help overlay among them.
C27_ExportedFrameCurrent ==
    [][lastEvent'.kind \in {"screenshot", "screenshotThrows"} =>
          lastRenderedOutput =
              Grid(centerX, centerY, zoom, maxIter, juliaMode,
                   colorSchemeIndex, showCrosshair, columns, rows)
      ]_vars

\* C27 witness: a screenshot taken as the fifth event of a run in which
\* three ticks had fired, the animation still running.
C27_Witness ==
    /\ lastEvent.kind = "screenshot"
    /\ eventsLeft = MaxAnimEvents - 5
    /\ animating
    /\ zoom = RDiv(RDiv(RDiv(Lit(1, 1) * 101, 100) * 101, 100) * 101, 100)
    /\ lastRenderedOutput.zoom = zoom
    /\ screen.msg = "screenshots"

\* C28: a family toggle, a reset, a bookmark recall, a zoom or a pan
\* handled while the animation runs leaves it running with the same
\* timer, speed and target; and no event other than a start or speed
\* cycle, a stop or a quit changes the animating flag or the timer.
C28_AnimationSurvivesViewKeys ==
    [][/\ (/\ animating
           /\ lastEvent'.kind \in {"toggleFamily", "reset", "recall",
                                   "recallEmpty", "zoomIn", "zoomOut",
                                   "up", "down", "left", "right"})
          => (animating' /\ UNCHANGED anim)
       /\ lastEvent'.kind \notin {"startAnimation", "cycleSpeed", "stop",
                                  "quit"}
          => UNCHANGED <<animating, animationInterval, timers>>
      ]_vars

\* C28 witness: a family toggle handled after an 'a' started the
\* animation: the view is the Julia home view and the animation still
\* runs on its timer, toward the Mandelbrot target chosen at the start.
C28_Witness ==
    /\ lastEvent.kind = "toggleFamily"
    /\ eventsLeft = MaxEvents - 2
    /\ juliaMode /\ zoom = Lit(1, 1)
    /\ animating /\ animationInterval # Null /\ Cardinality(timers) = 1
    /\ speedIndex = 3
    /\ \E i \in 1..Len(INTERESTING_POINTS) :
           targetPoint = INTERESTING_POINTS[i]

=============================================================================
